---- MODULE Spec2Model ----
(***************************************************************************)
(* Model of the GNSS acquisition engine of particle-som-gnss:              *)
(* SomLocation (location.h, location_point.h) and LocationConfiguration   *)
(* (location_options.h).                                                   *)
(*                                                                         *)
(* Threads: the caller threads of Callers, each calling getLocation, and   *)
(* the worker thread running SomLocation::threadLoop.  Every read or write *)
(* of shared state (the two queues, _acquiring, _modemType, _reqid, the    *)
(* publish buffer, the modem) is a step of its own, so the interleavings   *)
(* of the code are the interleavings of the model.                         *)
(*                                                                         *)
(* Time is counted in ticks of LOCATION_PERIOD_ACQUIRE_MS (1 s).  A tick   *)
(* passes only while every thread waits: in delay(), in a queue take with  *)
(* a timeout, or for the reply to one of the two polling commands, whose   *)
(* timeout of 1000 ms is one tick.  Every other statement, the other AT    *)
(* commands included, takes no tick.                                       *)
(*                                                                         *)
(* Modem reply lines are records [t, n, a, b]:                             *)
(*   t = "cme"   "+CME ERROR: <n>"                                         *)
(*   t = "qloc"  "+QGPSLOC: ..." whose first n fields (of 16) sscanf       *)
(*               converts; a is the HDOP field, b the fix field            *)
(*   t = "epe"   "+QGPSCFG: "estimation_error",..." whose first n fields   *)
(*               (of 4) sscanf converts; a is h_acc, b is v_acc            *)
(*   t = "other" any other non-empty line (an unsolicited result code)     *)
(*   t = "empty" the empty string                                          *)
(***************************************************************************)
EXTENDS Integers, Sequences, FiniteSets, TLC

(* ------------------------------------------------------------------ *)
(* Bounds of the model                                                 *)
(* ------------------------------------------------------------------ *)

\* getLocation calls made in one behaviour
MaxCalls == 2

\* getLocation calls made in one behaviour of SpecAttempt
MaxAttempts == 1

\* caller threads
Callers == {"c1", "c2"}

(* ------------------------------------------------------------------ *)
(* Program constants                                                   *)
(* ------------------------------------------------------------------ *)

LOCATION_PERIOD_ACQUIRE_MS == 1
\* the timeout of the two polling commands: 1000 ms
COMMAND_TIMEOUT_MS == 1
LOCATION_REQUIRED_SETTLING_COUNT == 2
LocationHdopDefault == 100
LocationHaccDefault == 50
LocationFixTimeDefault == 90
LOCATION_CONST_GPS_GLONASS == 1
LOCATION_CONST_GPS_BEIDOU == 2
PIN_INVALID == 255
GNSS_ANT_PWR == 7
QUEUE_SIZE == 1

\* CME_Error
CME_NONE == 0
CME_FIX == 1
CME_SESSION_IS_ONGOING == 504
CME_SESSION_NOT_ACTIVE == 505
CME_OPERATION_TIMEOUT == 506
CME_NO_FIX == 516
CME_GNSS_IS_WORKING == 522
CME_UNKNOWN_ERROR == 549
CME_UNDEFINED == 999

\* sscanf's EOF: input ended before the first conversion
SCAN_EOF == -1
\* conversions of the +QGPSLOC pattern; HDOP is the 6th, fix the 8th
QLOC_FIELDS == 16
QLOC_HDOP_FIELD == 6
QLOC_FIX_FIELD == 8

(* ------------------------------------------------------------------ *)
(* LocationConfiguration (location_options.h)                          *)
(* ------------------------------------------------------------------ *)

\* LocationConfiguration::LocationConfiguration()
LocationConfiguration ==
    [constellations |-> LOCATION_CONST_GPS_GLONASS,
     antennaPin     |-> PIN_INVALID,
     hdop           |-> LocationHdopDefault,
     hacc           |-> LocationHaccDefault,
     maxFixSeconds  |-> LocationFixTimeDefault]

constellations(cf, flags) == [cf EXCEPT !.constellations = flags]

enableAntennaPower(cf, pin) == [cf EXCEPT !.antennaPin = pin]

\* hdopThreshold storing its argument as it is
hdopThreshold_Unclamped(cf, hdop) == [cf EXCEPT !.hdop = hdop]

hdopThreshold(cf, hdop) ==
    [cf EXCEPT !.hdop = IF 0 > hdop THEN 0 ELSE IF 100 < hdop THEN 100 ELSE hdop]

haccThreshold(cf, hacc) == [cf EXCEPT !.hacc = hacc]

maximumFixTime(cf, fixSeconds) == [cf EXCEPT !.maxFixSeconds = fixSeconds]

\* LocationConfiguration::operator=: _hacc is not among the members copied
AssignConfiguration(lhs, rhs) ==
    [lhs EXCEPT !.constellations = rhs.constellations,
                !.antennaPin     = rhs.antennaPin,
                !.hdop           = rhs.hdop,
                !.maxFixSeconds  = rhs.maxFixSeconds]

(* ------------------------------------------------------------------ *)
(* Inputs                                                              *)
(* ------------------------------------------------------------------ *)

\* the configurations an application passes to begin, built with the setters
Configurations ==
    { maximumFixTime(haccThreshold(hdopThreshold(
          enableAntennaPower(LocationConfiguration, GNSS_ANT_PWR), 2), 10), 3),
      maximumFixTime(hdopThreshold(
          constellations(LocationConfiguration, LOCATION_CONST_GPS_BEIDOU), 150), 1) }

Line(t, n, a, b) == [t |-> t, n |-> n, a |-> a, b |-> b]
EmptyLine == Line("empty", 0, 0, 0)
OtherLine == Line("other", 0, 0, 0)
CmeLine(code) == Line("cme", code, 0, 0)
QlocLine(n, hdop, fix) == Line("qloc", n, hdop, fix)
EpeLine(n, hacc) == Line("epe", n, hacc, hacc)

\* "none": the command times out without the reply handler being invoked
NoReply == Line("none", 0, 0, 0)

\* "first": stands for the reply of the cycle before the first cycle
NoCycle == Line("first", 0, 0, 0)

\* what the modem may answer to AT+QGPSLOC=2
GlocReplies ==
    { NoReply, CmeLine(CME_NO_FIX), CmeLine(CME_SESSION_IS_ONGOING), OtherLine,
      QlocLine(QLOC_FIELDS, 2, 1), QlocLine(QLOC_FIELDS, 3, 1), QlocLine(3, 0, 0) }

\* what the modem may answer to AT+QGPSCFG="estimation_error"
EpeReplies == { NoReply, CmeLine(CME_NO_FIX), EpeLine(4, 50), EpeLine(4, 60) }

\* the configuration of Spec
ConcurrentConfigurations ==
    { maximumFixTime(haccThreshold(hdopThreshold(
          enableAntennaPower(LocationConfiguration, GNSS_ANT_PWR), 2), 10), 2) }

\* the replies of Spec
ConcurrentGlocReplies == { CmeLine(CME_NO_FIX), QlocLine(QLOC_FIELDS, 2, 1) }
ConcurrentEpeReplies == { EpeLine(4, 50) }

\* the arguments of the setter calls of SpecConfigure
HdopInputs == { -150, -1, 0, 1, 50, 99, 100, 101, 150 }
ConstellationInputs == { LOCATION_CONST_GPS_GLONASS, LOCATION_CONST_GPS_BEIDOU }
PinInputs == { GNSS_ANT_PWR }
HaccInputs == { 10 }
FixTimeInputs == { 2 }

\* the configuration and the replies of SpecParse: every +CME ERROR code the
\* parser names, one it does not name, a line that is no error, a fix
ParseConfigurations == { maximumFixTime(LocationConfiguration, 2) }

ParseGlocReplies ==
    { NoReply, OtherLine, QlocLine(QLOC_FIELDS, 2, 1) }
    \cup { CmeLine(code) : code \in
              { CME_SESSION_IS_ONGOING, CME_SESSION_NOT_ACTIVE, CME_OPERATION_TIMEOUT,
                CME_NO_FIX, CME_GNSS_IS_WORKING, CME_UNKNOWN_ERROR, 100 } }

ParseEpeReplies == { EpeLine(4, 50) }

\* contents of _locBuffer and _epeBuffer before the first reply: the arrays
\* are members without an initialiser
InitialBuffers == { EmptyLine, OtherLine }

\* cellular_device_info: 0 (not cached yet), DEV_QUECTEL_BG95_M5, any other
DeviceIds == { "none", "bg95", "other" }

(* ------------------------------------------------------------------ *)
(* Response parser (location_point.h)                                  *)
(* ------------------------------------------------------------------ *)

\* sscanf(buf, " +CME ERROR: %u", &error_code): [nargs, code]
ScanCmeError(buf) ==
    IF buf.t = "cme" THEN [nargs |-> 1, code |-> buf.n]
    ELSE IF buf.t = "empty" THEN [nargs |-> SCAN_EOF, code |-> 0]
    ELSE [nargs |-> 0, code |-> 0]

parseCmeError(buf) ==
    LET s == ScanCmeError(buf) IN
    IF 0 = s.nargs THEN CME_NONE
    ELSE IF s.code \in {CME_SESSION_IS_ONGOING, CME_SESSION_NOT_ACTIVE,
                         CME_OPERATION_TIMEOUT, CME_NO_FIX, CME_GNSS_IS_WORKING,
                         CME_UNKNOWN_ERROR}
    THEN s.code
    ELSE CME_UNDEFINED

\* sscanf(buf, " +QGPSLOC: ...") : number of conversions
ScanQloc(buf) ==
    IF buf.t = "qloc" THEN buf.n
    ELSE IF buf.t = "empty" THEN SCAN_EOF
    ELSE 0

\* parseQloc: [ret, context, point]
parseQloc(buf, context, pt) ==
    LET nargs == ScanQloc(buf)
        ctx == [hdop |-> IF nargs >= QLOC_HDOP_FIELD THEN buf.a ELSE context.hdop,
                fix  |-> IF nargs >= QLOC_FIX_FIELD THEN buf.b ELSE context.fix]
    IN  IF 0 = nargs
        THEN [ret |-> -1, context |-> context, point |-> pt]
        ELSE [ret |-> 0, context |-> ctx,
              point |-> [pt EXCEPT !.fix = ctx.fix, !.horizontalDop = ctx.hdop]]

\* parseQlocResponse going on to parseQloc for every fault but NO_FIX
parseQlocResponse_FaultIsFix(buf, context, pt) ==
    LET result == parseCmeError(buf) IN
    IF CME_NO_FIX = result
    THEN [ret |-> result, context |-> context, point |-> [pt EXCEPT !.fix = 0]]
    ELSE LET q == parseQloc(buf, context, pt)
         IN  [ret |-> CME_FIX, context |-> q.context, point |-> q.point]

\* parseQlocResponse: [ret, context, point]
parseQlocResponse(buf, context, pt) ==
    LET result == parseCmeError(buf) IN
    IF CME_NO_FIX = result
    THEN [ret |-> result, context |-> context, point |-> [pt EXCEPT !.fix = 0]]
    ELSE IF CME_NONE # result
    THEN [ret |-> CME_NONE, context |-> context, point |-> pt]
    ELSE LET q == parseQloc(buf, context, pt)
         IN  [ret |-> CME_FIX, context |-> q.context, point |-> q.point]

\* sscanf(buf, " +QGPSCFG: \"estimation_error\",%f,%f,%f,%f"): number of conversions
ScanEpe(buf) ==
    IF buf.t = "epe" THEN buf.n
    ELSE IF buf.t = "empty" THEN SCAN_EOF
    ELSE 0

\* parseEpeResponse: the point
parseEpeResponse(buf, pt) ==
    IF CME_NONE # parseCmeError(buf) THEN pt
    ELSE IF ScanEpe(buf) # 0
         THEN [pt EXCEPT !.horizontalAccuracy = buf.a]
         ELSE pt


(* ------------------------------------------------------------------ *)
(* State                                                               *)
(* ------------------------------------------------------------------ *)

VARIABLES
    \* the environment
    modemOn,            \* Cellular.isOn()
    devId,              \* what cellular_device_info reports
    connected,          \* Particle.connected()
    antennaLevel,       \* level driven on the antenna-power pin
    point,              \* the LocationPoint of each caller
    pubLog,             \* payloads Particle.publish accepted, in order
    \* SomLocation
    modemType,          \* _modemType
    conf,               \* _conf
    antennaPowerPin,    \* _antennaPowerPin
    acquiring,          \* _acquiring
    commandQueue,       \* _commandQueue
    responseQueue,      \* _responseQueue
    reqid,              \* _reqid
    publishBuffer,      \* _publishBuffer
    locBuffer,          \* _locBuffer
    epeBuffer,          \* _epeBuffer
    qlocContext,        \* _qlocContext
    \* threads
    c,                  \* per caller: position in getLocation and its locals
    w,                  \* the worker: position in threadLoop and its locals
    \* history
    begun,              \* begin has been called
    passed,             \* the configuration passed to begin
    calls,              \* getLocation calls made so far; a call's id is its number
    kind,               \* per call id: "sync" or "async" once the call reached its
                        \* os_queue_put, "none" before
    returned,           \* per call id: the value getLocation returned, or "none"
    outcome,            \* per call id: the outcome the worker produced, or "none"
    callbacks,          \* per call id: invocations of its callback
    publishes,          \* per call id: the publish argument, what isConnected()
                        \* returned to the call's publish condition ("none" while
                        \* not evaluated), and the Particle.publish calls made for it
    \* the application
    config,             \* the LocationConfiguration object the application builds
    hdopArg,            \* the arguments of the last hdopThreshold call, <<>> before any
    status,             \* the value the last getStatus call returned, "none" before
    statusAt            \* the number of getLocation calls made when it returned

env == <<modemOn, devId, connected>>
engine == <<modemType, conf, antennaPowerPin>>
queues == <<commandQueue, responseQueue>>
buffers == <<locBuffer, epeBuffer, qlocContext>>
publishing == <<reqid, publishBuffer, pubLog>>
history == <<begun, passed, calls, kind, returned, outcome, callbacks>>
application == <<config, hdopArg, status, statusAt>>

vars == <<modemOn, devId, connected, antennaLevel, point, pubLog,
          modemType, conf, antennaPowerPin, acquiring, commandQueue, responseQueue,
          reqid, publishBuffer, locBuffer, epeBuffer, qlocContext,
          c, w, begun, passed, calls, kind, returned, outcome, callbacks, publishes,
          config, hdopArg, status, statusAt>>

CallIds == 1..(IF MaxCalls > MaxAttempts THEN MaxCalls ELSE MaxAttempts)

\* LocationPoint point = {}
EmptyPoint ==
    [fix |-> 0, horizontalDop |-> 0, horizontalAccuracy |-> 0,
     systemTime |-> 0, timeToFirstFix |-> 0]

\* LocationCommandContext event {}
NoEvent ==
    [command |-> "None", sendResponse |-> FALSE, doneCallback |-> FALSE,
     publish |-> FALSE, point |-> "nullptr", id |-> 0]

\* a caller outside getLocation
IdleCaller == [pc |-> "idle", mode |-> "none", publish |-> FALSE, id |-> 0,
               result |-> "Idle", wait |-> 0, seq |-> 0]

\* the worker in waitOnCommandEvent, no attempt under way.  firstFix is kept
\* relative to `start`; -1 stands for the 0 of the code, which System.millis()
\* does not return once the system runs
IdleWorker ==
    [pc |-> "wait", event |-> NoEvent, maxTime |-> 0, firstFix |-> -1,
     fixCount |-> 0, response |-> "TimedOut", power |-> FALSE, elapsed |-> 0,
     ret |-> CME_NONE, delay |-> 0, seq |-> 0,
     \* history of the attempt: the reply to this cycle's position poll; whether
     \* the polls so far were answered "none" (no poll yet), "nofix" (each with
     \* +CME ERROR: 516) or "mixed"; the well-formed position replies received
     reply |-> NoReply, seen |-> "none", decoded |-> 0,
     \* the reply to the position poll of the cycle before this one
     prev |-> NoCycle,
     \* what parseCmeError returned for the buffer of this cycle's position poll
     cme |-> CME_NONE,
     \* the antenna and modem actions of the attempt so far, in order:
     \* "antennaOn", "start" (AT+QGPS=1), "position" (AT+QGPSLOC=2), "accuracy"
     \* (AT+QGPSCFG="estimation_error"), "stop" (AT+QGPSEND)
     log |-> <<>>]

\* a call for which nothing about publishing has happened
NoPublish == [asked |-> FALSE, online |-> "none", calls |-> 0]

\* the payload not yet built
NoPayload == [lck |-> 0, req_id |-> 0, by |-> "nobody"]

Init ==
    /\ modemOn \in BOOLEAN
    /\ devId \in DeviceIds
    /\ connected = FALSE
    /\ antennaLevel = "LOW"
    /\ point = [cl \in Callers |-> EmptyPoint]
    /\ pubLog = <<>>
    /\ modemType = "Unavailable"
    /\ conf = LocationConfiguration
    /\ antennaPowerPin = PIN_INVALID
    /\ acquiring = FALSE
    /\ commandQueue = <<>>
    /\ responseQueue = <<>>
    /\ reqid = 1
    /\ publishBuffer = NoPayload
    /\ locBuffer \in InitialBuffers
    /\ epeBuffer = EmptyLine
    /\ qlocContext = [hdop |-> 0, fix |-> 0]
    /\ c = [cl \in Callers |-> IdleCaller]
    /\ w = IdleWorker
    /\ begun = FALSE
    /\ passed = LocationConfiguration
    /\ calls = 0
    /\ kind = [i \in CallIds |-> "none"]
    /\ returned = [i \in CallIds |-> "none"]
    /\ outcome = [i \in CallIds |-> "none"]
    /\ callbacks = [i \in CallIds |-> 0]
    /\ publishes = [i \in CallIds |-> NoPublish]
    /\ config = LocationConfiguration
    /\ hdopArg = <<>>
    /\ status = "none"
    /\ statusAt = 0

(* ------------------------------------------------------------------ *)
(* Helpers of SomLocation                                              *)
(* ------------------------------------------------------------------ *)

isModemOn == modemOn

isConnected == connected

modemNotDetected == modemType = "Unavailable"

\* detectModemType: [detected, modemType]
detectModemType ==
    IF modemNotDetected /\ isModemOn
    THEN CASE devId = "none"  -> [detected |-> FALSE, modemType |-> modemType]
           [] devId = "bg95"  -> [detected |-> TRUE, modemType |-> "BG95_M5"]
           [] devId = "other" -> [detected |-> FALSE, modemType |-> "Unsupported"]
    ELSE IF ~modemNotDetected /\ modemType # "Unsupported"
    THEN [detected |-> TRUE, modemType |-> modemType]
    ELSE [detected |-> FALSE, modemType |-> modemType]

\* os_queue_put(queue, item, 0, nullptr): fails, leaving the queue, when it is full
os_queue_put(queue, item) ==
    IF Len(queue) < QUEUE_SIZE THEN Append(queue, item) ELSE queue

\* buildPublish: the "lck" flag and the "req_id" of the payload
buildPublish(pt, seq, who) ==
    [lck |-> IF 0 = pt.fix THEN 0 ELSE 1, req_id |-> seq, by |-> who]

\* the condition of threadLoop under which an attempt stops with Fixed
FixQualified(ret, fixCount, pt, cf) ==
    /\ CME_FIX = ret
    /\ LOCATION_REQUIRED_SETTLING_COUNT = fixCount
    /\ pt.horizontalDop <= cf.hdop
    /\ pt.horizontalAccuracy <= cf.hacc

\* getStatus with the two values exchanged
getStatus_Inverted == IF acquiring THEN "Idle" ELSE "Acquiring"

\* getStatus
getStatus == IF acquiring THEN "Acquiring" ELSE "Idle"


(* ------------------------------------------------------------------ *)
(* begin                                                               *)
(* ------------------------------------------------------------------ *)

\* SomLocation::begin(configuration), called once by the application's setup
begin(configuration) ==
    /\ ~begun
    /\ conf' = AssignConfiguration(conf, configuration)
    /\ antennaPowerPin' = conf'.antennaPin
    /\ modemType' = IF isModemOn /\ modemNotDetected
                    THEN detectModemType.modemType
                    ELSE modemType
    /\ begun' = TRUE
    /\ passed' = configuration
    /\ UNCHANGED <<application, publishes, env, antennaLevel, point, acquiring, queues, publishing, buffers,
                   c, w, calls, kind, returned, outcome, callbacks>>

\* the application's setup before begin: calls of the setters on its
\* LocationConfiguration object
constellations_Call(flags) ==
    /\ ~begun
    /\ config' = constellations(config, flags)
    /\ UNCHANGED <<hdopArg, status, statusAt, publishes, env, engine, antennaLevel, point,
                   acquiring, queues, publishing, buffers, c, w, history>>

enableAntennaPower_Call(pin) ==
    /\ ~begun
    /\ config' = enableAntennaPower(config, pin)
    /\ UNCHANGED <<hdopArg, status, statusAt, publishes, env, engine, antennaLevel, point,
                   acquiring, queues, publishing, buffers, c, w, history>>

hdopThreshold_Call(hdop) ==
    /\ ~begun
    /\ config' = hdopThreshold(config, hdop)
    /\ hdopArg' = <<hdop>>
    /\ UNCHANGED <<status, statusAt, publishes, env, engine, antennaLevel, point,
                   acquiring, queues, publishing, buffers, c, w, history>>

haccThreshold_Call(hacc) ==
    /\ ~begun
    /\ config' = haccThreshold(config, hacc)
    /\ UNCHANGED <<hdopArg, status, statusAt, publishes, env, engine, antennaLevel, point,
                   acquiring, queues, publishing, buffers, c, w, history>>

maximumFixTime_Call(fixSeconds) ==
    /\ ~begun
    /\ config' = maximumFixTime(config, fixSeconds)
    /\ UNCHANGED <<hdopArg, status, statusAt, publishes, env, engine, antennaLevel, point,
                   acquiring, queues, publishing, buffers, c, w, history>>

(* ------------------------------------------------------------------ *)
(* getLocation, both overloads: mode "sync" is getLocation(point,       *)
(* publish), mode "async" is getLocation(point, callback, publish)      *)
(* ------------------------------------------------------------------ *)

\* the caller and the history after `return val` from call number id
Return(cl, id, val) ==
    /\ c' = [c EXCEPT ![cl] = IdleCaller]
    /\ returned' = [returned EXCEPT ![id] = val]

\* getLocation_Enter with the in-flight check made before the power check
getLocation_Enter_PendingFirst(cl, mode, publish) ==
    /\ begun
    /\ c[cl].pc = "idle"
    /\ calls' = calls + 1
    /\ IF acquiring \/ ~isModemOn
       THEN /\ c' = c
            /\ returned' = [returned EXCEPT ![calls + 1] =
                                IF acquiring THEN "Pending" ELSE "Unavailable"]
       ELSE /\ c' = [c EXCEPT ![cl] = [IdleCaller EXCEPT !.pc = "detect", !.mode = mode,
                                          !.publish = publish, !.id = calls + 1]]
            /\ returned' = returned
    /\ UNCHANGED <<application, publishes, env, engine, antennaLevel, point, acquiring, queues, publishing,
                   buffers, w, begun, passed, kind, outcome, callbacks>>

\* entry and `if (!isModemOn()) return Unavailable`
getLocation_Enter(cl, mode, publish) ==
    /\ begun
    /\ c[cl].pc = "idle"
    /\ calls' = calls + 1
    /\ IF ~isModemOn
       THEN /\ c' = c
            /\ returned' = [returned EXCEPT ![calls + 1] = "Unavailable"]
       ELSE /\ c' = [c EXCEPT ![cl] = [IdleCaller EXCEPT !.pc = "detect", !.mode = mode,
                                          !.publish = publish, !.id = calls + 1]]
            /\ returned' = returned
    /\ UNCHANGED <<application, publishes, env, engine, antennaLevel, point, acquiring, queues, publishing,
                   buffers, w, begun, passed, kind, outcome, callbacks>>

\* `if (modemNotDetected()) { if (!detectModemType()) return Unsupported; }`
getLocation_Detect(cl) ==
    /\ c[cl].pc = "detect"
    /\ IF modemNotDetected
       THEN /\ modemType' = detectModemType.modemType
            /\ IF ~detectModemType.detected
               THEN Return(cl, c[cl].id, "Unsupported")
               ELSE /\ c' = [c EXCEPT ![cl].pc = "acquiring"]
                    /\ returned' = returned
       ELSE /\ modemType' = modemType
            /\ c' = [c EXCEPT ![cl].pc = "acquiring"]
            /\ returned' = returned
    /\ UNCHANGED <<application, publishes, env, conf, antennaPowerPin, antennaLevel, point, acquiring, queues,
                   publishing, buffers, w, begun, passed, calls, kind, outcome,
                   callbacks>>

\* `if (_acquiring.load()) return Pending`
getLocation_CheckAcquiring(cl) ==
    /\ c[cl].pc = "acquiring"
    /\ IF acquiring
       THEN Return(cl, c[cl].id, "Pending")
       ELSE /\ c' = [c EXCEPT ![cl].pc = "put"]
            /\ returned' = returned
    /\ UNCHANGED <<application, publishes, env, engine, antennaLevel, point, acquiring, queues, publishing,
                   buffers, w, begun, passed, calls, kind, outcome, callbacks>>

\* the event a call puts on the command queue
CommandOf(cl) ==
    [command |-> "Acquire", sendResponse |-> (c[cl].mode = "sync"),
     doneCallback |-> (c[cl].mode = "async"),
     publish |-> (c[cl].mode = "async" /\ c[cl].publish),
     point |-> cl, id |-> c[cl].id]

\* os_queue_put(_commandQueue, &event, 0, nullptr); the async overload returns
\* Acquiring, the sync overload enters waitOnResponseEvent
getLocation_Put(cl) ==
    /\ c[cl].pc = "put"
    /\ commandQueue' = os_queue_put(commandQueue, CommandOf(cl))
    /\ kind' = [kind EXCEPT ![c[cl].id] = c[cl].mode]
    /\ publishes' = [publishes EXCEPT ![c[cl].id].asked = c[cl].publish]
    /\ IF c[cl].mode = "async"
       THEN Return(cl, c[cl].id, "Acquiring")
       ELSE /\ c' = [c EXCEPT ![cl].pc = "wait",
                              ![cl].wait = conf.maxFixSeconds + LOCATION_PERIOD_ACQUIRE_MS]
            /\ returned' = returned
    /\ UNCHANGED <<application, env, engine, antennaLevel, point, acquiring, responseQueue,
                   publishing, buffers, w, begun, passed, calls, outcome, callbacks>>

\* AfterWait without the test for Fixed
AfterWait_AnyResult(cl, result) ==
    IF c[cl].publish
    THEN /\ c' = [c EXCEPT ![cl].pc = "connected", ![cl].result = result]
         /\ returned' = returned
    ELSE Return(cl, c[cl].id, result)

\* after waitOnResponseEvent gave `result`: return it, unless the publish
\* condition still has isConnected() to read
AfterWait(cl, result) ==
    IF c[cl].publish /\ "Fixed" = result
    THEN /\ c' = [c EXCEPT ![cl].pc = "connected", ![cl].result = result]
         /\ returned' = returned
    ELSE Return(cl, c[cl].id, result)

\* waitOnResponseEvent: os_queue_take gives the response
waitOnResponseEvent_Take(cl) ==
    /\ c[cl].pc = "wait"
    /\ responseQueue # <<>>
    /\ responseQueue' = Tail(responseQueue)
    /\ AfterWait(cl, Head(responseQueue).value)
    /\ UNCHANGED <<application, publishes, env, engine, antennaLevel, point, acquiring, commandQueue,
                   publishing, buffers, w, begun, passed, calls, kind, outcome,
                   callbacks>>

\* waitOnResponseEvent: os_queue_take times out, the result is Idle
waitOnResponseEvent_Timeout(cl) ==
    /\ c[cl].pc = "wait"
    /\ responseQueue = <<>>
    /\ c[cl].wait = 0
    /\ AfterWait(cl, "Idle")
    /\ UNCHANGED <<application, publishes, env, engine, antennaLevel, point, acquiring, queues, publishing,
                   buffers, w, begun, passed, calls, kind, outcome, callbacks>>

\* `... && isConnected()) { buildPublish(...)`
getLocation_BuildPublish(cl) ==
    /\ c[cl].pc = "connected"
    /\ publishes' = [publishes EXCEPT ![c[cl].id].online =
                         IF isConnected THEN "yes" ELSE "no"]
    /\ IF isConnected
       THEN /\ publishBuffer' = buildPublish(point[cl], reqid, cl)
            /\ c' = [c EXCEPT ![cl].pc = "publish"]
            /\ returned' = returned
       ELSE /\ publishBuffer' = publishBuffer
            /\ Return(cl, c[cl].id, c[cl].result)
    /\ UNCHANGED <<application, env, engine, antennaLevel, point, acquiring, queues, reqid, pubLog,
                   buffers, w, begun, passed, calls, kind, outcome, callbacks>>

\* `published = Particle.publish("loc", _publishBuffer); if (published)` and
\* the load of `_reqid++`: _reqid is a plain unsigned int that both threads
\* increment, so the load and the store of the increment are steps of their own
getLocation_Publish(cl, published) ==
    /\ c[cl].pc = "publish"
    /\ publishes' = [publishes EXCEPT ![c[cl].id].calls = @ + 1]
    /\ IF published
       THEN /\ pubLog' = Append(pubLog, publishBuffer)
            /\ c' = [c EXCEPT ![cl].pc = "reqid", ![cl].seq = reqid]
            /\ returned' = returned
       ELSE /\ pubLog' = pubLog
            /\ Return(cl, c[cl].id, c[cl].result)
    /\ UNCHANGED <<application, env, engine, antennaLevel, point, acquiring, queues, reqid,
                   publishBuffer, buffers, w, begun, passed, calls, kind, outcome,
                   callbacks>>

\* the store of `_reqid++`, and `return result`
getLocation_StoreReqid(cl) ==
    /\ c[cl].pc = "reqid"
    /\ reqid' = c[cl].seq + 1
    /\ Return(cl, c[cl].id, c[cl].result)
    /\ UNCHANGED <<application, publishes, env, engine, antennaLevel, point, acquiring, queues,
                   publishBuffer, pubLog, buffers, w, begun, passed, calls, kind, outcome,
                   callbacks>>


\* the application calls getStatus from a thread that is outside getLocation
getStatus_Call(cl) ==
    /\ c[cl].pc = "idle"
    /\ status' = getStatus
    /\ statusAt' = calls
    /\ UNCHANGED <<config, hdopArg, publishes, env, engine, antennaLevel, point, acquiring,
                   queues, publishing, buffers, c, w, history>>

(* ------------------------------------------------------------------ *)
(* threadLoop                                                          *)
(* ------------------------------------------------------------------ *)

\* waitOnCommandEvent: os_queue_take gives a command (a timeout gives None,
\* and the loop comes back here with nothing changed)
waitOnCommandEvent ==
    /\ w.pc = "wait"
    /\ commandQueue # <<>>
    /\ commandQueue' = Tail(commandQueue)
    /\ w' = [w EXCEPT !.pc = "store", !.event = Head(commandQueue)]
    /\ UNCHANGED <<application, publishes, env, engine, antennaLevel, point, acquiring, responseQueue,
                   publishing, buffers, c, history>>

\* case Acquire: `_acquiring.store(true)`
threadLoop_StoreAcquiring ==
    /\ w.pc = "store"
    /\ acquiring' = TRUE
    /\ w' = [w EXCEPT !.pc = "antenna"]
    /\ UNCHANGED <<application, publishes, env, engine, antennaLevel, point, queues, publishing, buffers, c,
                   history>>

\* setAntennaPower
setAntennaPower ==
    /\ w.pc = "antenna"
    /\ antennaLevel' = IF PIN_INVALID # antennaPowerPin THEN "HIGH" ELSE antennaLevel
    /\ w' = [w EXCEPT !.pc = "start",
                      !.log = IF PIN_INVALID # antennaPowerPin
                              THEN Append(@, "antennaOn") ELSE @]
    /\ UNCHANGED <<application, publishes, env, engine, point, acquiring, queues, publishing, buffers, c,
                   history>>

\* AT+QGPS=1 (and the BG95 configuration), the locals of the attempt,
\* `start = System.millis()`
threadLoop_Start ==
    /\ w.pc = "start"
    /\ w' = [w EXCEPT !.pc = "loop", !.maxTime = conf.maxFixSeconds,
                      !.firstFix = -1, !.fixCount = 0, !.response = "TimedOut",
                      !.power = FALSE, !.elapsed = 0,
                      !.log = Append(@, "start")]
    /\ UNCHANGED <<application, publishes, env, engine, antennaLevel, point, acquiring, queues, publishing,
                   buffers, c, history>>

\* the loop head leaving the loop past AT+QGPSEND when the modem is off
threadLoop_LoopCheck_SkipsStop ==
    /\ w.pc = "loop"
    /\ w' = [w EXCEPT !.power = isModemOn,
                      !.pc = IF ~isModemOn THEN "deliver"
                             ELSE IF w.elapsed >= w.maxTime THEN "end"
                             ELSE "gloc",
                      !.delay = IF isModemOn /\ w.elapsed < w.maxTime
                                THEN COMMAND_TIMEOUT_MS ELSE 0]
    /\ UNCHANGED <<application, publishes, env, engine, antennaLevel, point, acquiring, queues, publishing,
                   buffers, c, history>>

\* `while ((power = isModemOn())) { now = millis(); if (now - start >= maxTime) break;`
threadLoop_LoopCheck ==
    /\ w.pc = "loop"
    /\ w' = [w EXCEPT !.power = isModemOn,
                      !.pc = IF ~isModemOn THEN "end"
                             ELSE IF w.elapsed >= w.maxTime THEN "end"
                             ELSE "gloc",
                      !.delay = IF isModemOn /\ w.elapsed < w.maxTime
                                THEN COMMAND_TIMEOUT_MS ELSE 0]
    /\ UNCHANGED <<application, publishes, env, engine, antennaLevel, point, acquiring, queues, publishing,
                   buffers, c, history>>

\* a position reply that matches the whole +QGPSLOC pattern
WellFormed(line) == line.t = "qloc" /\ line.n = QLOC_FIELDS

\* a fix count that a cycle without a fix sets back to zero
NextFixCount_ResetOnMiss(ret, fixCount) == IF CME_FIX = ret THEN fixCount + 1 ELSE 0

\* `if (CME_Error::FIX == ret) { fixCount++;`
NextFixCount(ret, fixCount) == IF CME_FIX = ret THEN fixCount + 1 ELSE fixCount

\* Cellular.command(glocCallback, _locBuffer, 1000, "AT+QGPSLOC=2");
\* parseQlocResponse; the fix count and the first fix.  Time.now() is counted
\* in ticks from one tick before `start`, so that it is never 0
threadLoop_Gloc(reply) ==
    /\ w.pc = "gloc"
    /\ reply = NoReply => w.delay = 0
    /\ locBuffer' = IF reply = NoReply THEN locBuffer ELSE reply
    /\ LET r == parseQlocResponse(locBuffer', qlocContext, point[w.event.point])
           first == CME_FIX = r.ret /\ w.firstFix = -1
       IN  /\ qlocContext' = r.context
           /\ point' = [point EXCEPT ![w.event.point] =
                          IF first THEN [r.point EXCEPT !.systemTime = w.elapsed + 1]
                          ELSE r.point]
           /\ w' = [w EXCEPT !.pc = "epe", !.ret = r.ret, !.reply = reply,
                             !.prev = IF w.seen = "none" THEN NoCycle ELSE w.reply,
                             !.cme = parseCmeError(locBuffer'),
                             !.log = Append(@, "position"),
                             !.seen = IF reply = CmeLine(CME_NO_FIX) /\ @ # "mixed"
                                      THEN "nofix" ELSE "mixed",
                             !.decoded = IF WellFormed(reply) THEN @ + 1 ELSE @,
                             !.delay = IF "BG95_M5" = modemType
                                       THEN COMMAND_TIMEOUT_MS ELSE 0,
                             !.fixCount = NextFixCount(r.ret, @),
                             !.firstFix = IF first THEN w.elapsed ELSE @]
    /\ UNCHANGED <<application, publishes, env, engine, antennaLevel, acquiring, queues, publishing, epeBuffer,
                   c, history>>

\* on BG95: Cellular.command(epeCallback, ...) and parseEpeResponse; then the
\* test for Fixed, else delay(LOCATION_PERIOD_ACQUIRE_MS)
threadLoop_Epe(reply) ==
    /\ w.pc = "epe"
    /\ ("BG95_M5" = modemType /\ reply = NoReply) => w.delay = 0
    /\ epeBuffer' = IF "BG95_M5" = modemType /\ reply # NoReply THEN reply ELSE epeBuffer
    /\ point' = [point EXCEPT ![w.event.point] =
                    IF "BG95_M5" = modemType THEN parseEpeResponse(epeBuffer', @) ELSE @]
    /\ LET log == IF "BG95_M5" = modemType THEN Append(w.log, "accuracy") ELSE w.log
       IN  w' = IF FixQualified(w.ret, w.fixCount, point'[w.event.point], conf)
                THEN [w EXCEPT !.pc = "end", !.response = "Fixed", !.log = log]
                ELSE [w EXCEPT !.pc = "delay", !.delay = LOCATION_PERIOD_ACQUIRE_MS,
                               !.log = log]
    /\ UNCHANGED <<application, publishes, env, engine, antennaLevel, acquiring, queues, publishing, locBuffer,
                   qlocContext, c, history>>

\* delay(LOCATION_PERIOD_ACQUIRE_MS) has passed
threadLoop_Delay ==
    /\ w.pc = "delay"
    /\ w.delay = 0
    /\ w' = [w EXCEPT !.pc = "loop"]
    /\ UNCHANGED <<application, publishes, env, engine, antennaLevel, point, acquiring, queues, publishing,
                   buffers, c, history>>

\* FinalResponse turning every attempt without a fix into Unavailable
FinalResponse_IgnoresPower(power, response) ==
    IF "Fixed" # response THEN "Unavailable" ELSE response

\* FinalResponse without the override
FinalResponse_KeepsResponse(power, response) == response

\* `if (!power && (Fixed != response)) response = Unavailable;`
FinalResponse(power, response) ==
    IF ~power /\ "Fixed" # response THEN "Unavailable" ELSE response

\* AT+QGPSEND; Unavailable on power loss; the time to first fix
threadLoop_End ==
    /\ w.pc = "end"
    /\ LET response == FinalResponse(w.power, w.response)
       IN  /\ w' = [w EXCEPT !.pc = "deliver", !.response = response,
                             !.log = Append(@, "stop")]
           /\ outcome' = [outcome EXCEPT ![w.event.id] = response]
    /\ point' = [point EXCEPT ![w.event.point].timeToFirstFix =
                    IF w.firstFix # -1 THEN w.firstFix ELSE @]
    /\ UNCHANGED <<application, publishes, env, engine, antennaLevel, acquiring, queues, publishing, buffers, c,
                   begun, passed, calls, kind, returned, callbacks>>

\* the worker's publish condition never met
WorkerPublishes_Never == FALSE

\* `event.publish && (LocationResults::Fixed == response) && isConnected()`
WorkerPublishes == w.event.publish /\ "Fixed" = w.response /\ isConnected

\* the item the worker puts on the response queue: the LocationResults value;
\* id, the number of the call the attempt belongs to, is history
ResponseOf(worker) == [value |-> worker.response, id |-> worker.event.id]

\* `if (event.sendResponse) os_queue_put(_responseQueue, ...) else if
\* (event.doneCallback) { if (publish && Fixed == response && isConnected()) ...`
threadLoop_Deliver ==
    /\ w.pc = "deliver"
    /\ publishes' = IF ~w.event.sendResponse /\ w.event.publish /\ "Fixed" = w.response
                    THEN [publishes EXCEPT ![w.event.id].online =
                             IF isConnected THEN "yes" ELSE "no"]
                    ELSE publishes
    /\ IF w.event.sendResponse
       THEN /\ responseQueue' = os_queue_put(responseQueue, ResponseOf(w))
            /\ w' = [w EXCEPT !.pc = "guard"]
            /\ publishBuffer' = publishBuffer
       ELSE /\ responseQueue' = responseQueue
            /\ IF WorkerPublishes
               THEN /\ publishBuffer' = buildPublish(point[w.event.point], reqid, "worker")
                    /\ w' = [w EXCEPT !.pc = "publish"]
               ELSE /\ publishBuffer' = publishBuffer
                    /\ w' = [w EXCEPT !.pc = "callback"]
    /\ UNCHANGED <<application, env, engine, antennaLevel, point, acquiring, commandQueue, reqid,
                   pubLog, buffers, c, history>>

\* `published = Particle.publish("loc", _publishBuffer); if (published)` and
\* the load of `_reqid++`
threadLoop_Publish(published) ==
    /\ w.pc = "publish"
    /\ publishes' = [publishes EXCEPT ![w.event.id].calls = @ + 1]
    /\ IF published
       THEN /\ pubLog' = Append(pubLog, publishBuffer)
            /\ w' = [w EXCEPT !.pc = "reqid", !.seq = reqid]
       ELSE /\ pubLog' = pubLog
            /\ w' = [w EXCEPT !.pc = "callback"]
    /\ UNCHANGED <<application, env, engine, antennaLevel, point, acquiring, queues, reqid,
                   publishBuffer, buffers, c, history>>

\* the store of `_reqid++`
threadLoop_StoreReqid ==
    /\ w.pc = "reqid"
    /\ reqid' = w.seq + 1
    /\ w' = [w EXCEPT !.pc = "callback"]
    /\ UNCHANGED <<application, publishes, env, engine, antennaLevel, point, acquiring, queues,
                   publishBuffer, pubLog, buffers, c, history>>

\* `event.doneCallback(response)`
threadLoop_Callback ==
    /\ w.pc = "callback"
    /\ callbacks' = [callbacks EXCEPT ![w.event.id] = @ + 1]
    /\ w' = [w EXCEPT !.pc = "guard"]
    /\ UNCHANGED <<application, publishes, env, engine, antennaLevel, point, acquiring, queues, publishing,
                   buffers, c, begun, passed, calls, kind, returned, outcome>>

\* clearAntennaPower leaving the pin as it is
clearAntennaPower_Skipped == antennaLevel

\* clearAntennaPower
clearAntennaPower == IF PIN_INVALID # antennaPowerPin THEN "LOW" ELSE antennaLevel

\* a scope guard that leaves `_acquiring` set
threadLoop_ScopeGuard_KeepsFlag ==
    /\ w.pc = "guard"
    /\ antennaLevel' = clearAntennaPower
    /\ w' = IdleWorker
    /\ UNCHANGED <<application, publishes, env, engine, point, acquiring, queues, publishing,
                   buffers, c, history>>

\* SCOPE_GUARD: `_acquiring.store(false); clearAntennaPower();`, and back to
\* waitOnCommandEvent
threadLoop_ScopeGuard ==
    /\ w.pc = "guard"
    /\ acquiring' = FALSE
    /\ antennaLevel' = clearAntennaPower
    /\ w' = IdleWorker
    /\ UNCHANGED <<application, publishes, env, engine, point, queues, publishing, buffers, c, history>>

(* ------------------------------------------------------------------ *)
(* The environment                                                     *)
(* ------------------------------------------------------------------ *)

\* a thread is about to evaluate isModemOn(): in begin, at the entry of
\* getLocation, in detectModemType, or at the head of the polling loop
ReadsModemOn(maxCalls) ==
    \/ ~begun
    \/ calls < maxCalls /\ \E cl \in Callers : c[cl].pc = "idle"
    \/ modemNotDetected /\ \E cl \in Callers : c[cl].pc = "detect"
    \/ w.pc = "loop"

\* the modem is switched on or off; its state shows only where a thread reads it
ModemPower(maxCalls) ==
    /\ ReadsModemOn(maxCalls)
    /\ modemOn' = ~modemOn
    /\ UNCHANGED <<application, publishes, devId, connected, engine, antennaLevel, point, acquiring, queues,
                   publishing, buffers, c, w, history>>

\* a thread is about to evaluate isConnected() or to publish
ReadsConnected ==
    \/ \E cl \in Callers : c[cl].pc \in {"connected", "publish"}
    \/ w.pc = "deliver" /\ w.event.publish /\ "Fixed" = w.response
    \/ w.pc = "publish"

\* the cloud connection comes or goes; its state shows only where a thread reads it
Connectivity ==
    /\ ReadsConnected
    /\ connected' = ~connected
    /\ UNCHANGED <<application, publishes, modemOn, devId, engine, antennaLevel, point, acquiring, queues,
                   publishing, buffers, c, w, history>>

\* Device OS caches the modem's identity
DeviceCached(dev) ==
    /\ devId = "none"
    /\ dev # "none"
    /\ devId' = dev
    /\ UNCHANGED <<application, publishes, modemOn, connected, engine, antennaLevel, point, acquiring, queues,
                   publishing, buffers, c, w, history>>

\* the worker's clock runs from `start` to the end of the polling loop
Timing == w.pc \in {"loop", "gloc", "epe", "delay"}

\* the worker waits: for a command, in delay(), for a polling command's reply,
\* or in Particle.publish
WorkerWaits ==
    \/ w.pc = "wait" /\ commandQueue = <<>>
    \/ w.pc \in {"gloc", "epe", "delay"} /\ w.delay > 0
    \/ w.pc = "publish"

\* the caller is outside getLocation, waits in waitOnResponseEvent, or is in
\* Particle.publish
CallerWaits(cl) ==
    \/ c[cl].pc = "idle"
    \/ c[cl].pc = "wait" /\ responseQueue = <<>> /\ c[cl].wait > 0
    \/ c[cl].pc = "publish"

\* one tick of LOCATION_PERIOD_ACQUIRE_MS passes
Tick ==
    /\ WorkerWaits
    /\ \A cl \in Callers : CallerWaits(cl)
    /\ Timing \/ \E cl \in Callers : c[cl].wait > 0
    /\ c' = [cl \in Callers |->
                [c[cl] EXCEPT !.wait = IF @ > 0 THEN @ - 1 ELSE 0]]
    /\ w' = [w EXCEPT !.delay = IF @ > 0 THEN @ - 1 ELSE 0,
                      !.elapsed = IF Timing THEN @ + 1 ELSE @]
    /\ UNCHANGED <<application, publishes, env, engine, antennaLevel, point, acquiring, queues, publishing,
                   buffers, history>>

(* ------------------------------------------------------------------ *)
(* Specifications                                                      *)
(* ------------------------------------------------------------------ *)

Caller(cl, maxCalls) ==
    \/ \E mode \in {"sync", "async"}, publish \in BOOLEAN :
           calls < maxCalls /\ getLocation_Enter(cl, mode, publish)
    \/ getLocation_Detect(cl)
    \/ getLocation_CheckAcquiring(cl)
    \/ getLocation_Put(cl)
    \/ waitOnResponseEvent_Take(cl)
    \/ waitOnResponseEvent_Timeout(cl)
    \/ getLocation_BuildPublish(cl)
    \/ \E published \in (IF isConnected THEN BOOLEAN ELSE {FALSE}) :
           getLocation_Publish(cl, published)
    \/ getLocation_StoreReqid(cl)

threadLoop(glocReplies, epeReplies) ==
    \/ waitOnCommandEvent
    \/ threadLoop_StoreAcquiring
    \/ setAntennaPower
    \/ threadLoop_Start
    \/ threadLoop_LoopCheck
    \/ \E reply \in glocReplies : threadLoop_Gloc(reply)
    \/ \E reply \in epeReplies : threadLoop_Epe(reply)
    \/ threadLoop_Delay
    \/ threadLoop_End
    \/ threadLoop_Deliver
    \/ \E published \in (IF isConnected THEN BOOLEAN ELSE {FALSE}) :
           threadLoop_Publish(published)
    \/ threadLoop_StoreReqid
    \/ threadLoop_Callback
    \/ threadLoop_ScopeGuard

Environment(maxCalls) ==
    \/ ModemPower(maxCalls)
    \/ Connectivity
    \/ \E dev \in DeviceIds : DeviceCached(dev)
    \/ Tick

\* Spec: the caller threads of Callers against the worker; the modem answers
\* a position poll with NoFix or a well-formed fix
Next ==
    \/ \E configuration \in ConcurrentConfigurations : begin(configuration)
    \/ \E cl \in Callers : Caller(cl, MaxCalls)
    \/ threadLoop(ConcurrentGlocReplies, ConcurrentEpeReplies)
    \/ Environment(MaxCalls)

Spec == Init /\ [][Next]_vars

\* SpecAttempt: one caller thread; the modem answers with any of the replies
NextAttempt ==
    \/ \E configuration \in Configurations : begin(configuration)
    \/ Caller("c1", MaxAttempts)
    \/ threadLoop(GlocReplies, EpeReplies)
    \/ Environment(MaxAttempts)

SpecAttempt == Init /\ [][NextAttempt]_vars

\* SpecStatus: one thread calls getLocation, and any thread that is outside
\* getLocation calls getStatus
NextStatus ==
    \/ \E configuration \in ConcurrentConfigurations : begin(configuration)
    \/ Caller("c1", MaxAttempts)
    \/ \E cl \in Callers : getStatus_Call(cl)
    \/ threadLoop(ConcurrentGlocReplies, ConcurrentEpeReplies)
    \/ Environment(MaxAttempts)

SpecStatus == Init /\ [][NextStatus]_vars

\* a caller thread inside getLocation takes its next step
CallerRuns(cl) == c[cl].pc # "idle" /\ Caller(cl, MaxCalls)

\* SpecCycle: one caller thread makes up to MaxCalls calls against the worker;
\* the worker thread is scheduled whenever it can run, a thread inside
\* getLocation runs on, and time passes whenever every thread waits
NextCycle ==
    \/ \E configuration \in ConcurrentConfigurations : begin(configuration)
    \/ Caller("c1", MaxCalls)
    \/ threadLoop(ConcurrentGlocReplies, ConcurrentEpeReplies)
    \/ Environment(MaxCalls)

SpecCycle ==
    /\ Init /\ [][NextCycle]_vars
    /\ WF_vars(threadLoop(ConcurrentGlocReplies, ConcurrentEpeReplies))
    /\ WF_vars(CallerRuns("c1"))
    /\ WF_vars(Tick)

\* SpecConfigure: the application's setup: setter calls on its configuration
\* object, then begin with that object
NextConfigure ==
    \/ \E flags \in ConstellationInputs : constellations_Call(flags)
    \/ \E pin \in PinInputs : enableAntennaPower_Call(pin)
    \/ \E hdop \in HdopInputs : hdopThreshold_Call(hdop)
    \/ \E hacc \in HaccInputs : haccThreshold_Call(hacc)
    \/ \E fixSeconds \in FixTimeInputs : maximumFixTime_Call(fixSeconds)
    \/ begin(config)

SpecConfigure == Init /\ [][NextConfigure]_vars

\* SpecParse: one caller thread; the modem answers a position poll with any
\* of the device errors
NextParse ==
    \/ \E configuration \in ParseConfigurations : begin(configuration)
    \/ Caller("c1", MaxAttempts)
    \/ threadLoop(ParseGlocReplies, ParseEpeReplies)
    \/ Environment(MaxAttempts)

SpecParse == Init /\ [][NextParse]_vars


(* ------------------------------------------------------------------ *)
(* Claims                                                              *)
(* ------------------------------------------------------------------ *)

\* the worker services a request whose outcome it has not produced yet
Servicing == w.pc \in {"store", "antenna", "start", "loop", "gloc", "epe", "delay", "end"}

\* an earlier request is outstanding: on the command queue or being serviced
Outstanding == commandQueue # <<>> \/ Servicing

\* request i is on the command queue or with the worker, its delivery still to come
InProgress(i) ==
    \/ \E k \in 1..Len(commandQueue) : commandQueue[k].id = i
    \/ w.event.id = i /\ w.pc \notin {"wait", "guard"}

\* C1 (single-flight): a getLocation call that makes its in-flight check while
\* an earlier request is outstanding returns Pending and puts nothing on the
\* command queue.
C1_SingleFlight ==
    [][\A cl \in Callers :
          (c[cl].pc = "acquiring" /\ c'[cl].pc # "acquiring" /\ Outstanding)
          => (returned'[c[cl].id] = "Pending" /\ c'[cl].pc = "idle"
              /\ commandQueue' = commandQueue)]_vars

\* C2: once the detected modem model is Unsupported, a getLocation call that
\* found the modem powered returns Unsupported and puts no command on the
\* command queue.
C2_UnsupportedReturned ==
    [][\A cl \in Callers :
          (modemType = "Unsupported" /\ c[cl].pc = "detect" /\ c'[cl].pc # "detect")
          => (returned'[c[cl].id] = "Unsupported" /\ c'[cl].pc = "idle"
              /\ commandQueue' = commandQueue)]_vars

\* C3: a getLocation call made while the modem is not powered returns
\* Unavailable at once, whatever the in-flight flag and the modem type, and
\* leaves the command queue, the response queue, the in-flight flag, the
\* request id and the callers' points unchanged.
C3_UnpoweredUnavailable ==
    [][(calls' = calls + 1 /\ ~modemOn)
          => (returned'[calls'] = "Unavailable" /\ c' = c
              /\ UNCHANGED <<commandQueue, responseQueue, acquiring, reqid, point>>)]_vars

\* C3 witness: a call has returned Unavailable although no attempt has produced
\* an outcome, with an attempt in flight and a supported modem detected.
C3_Witness ==
    /\ \E i \in CallIds : returned[i] = "Unavailable"
    /\ \A i \in CallIds : outcome[i] = "none"
    /\ acquiring
    /\ modemType = "BG95_M5"

\* C4: a blocking getLocation call that dispatched a request returns the
\* outcome the worker produced for that request, or Idle when no outcome is
\* produced for it; no outcome is produced for a request whose caller has
\* returned something else.
C4_OutcomeReported ==
    \A i \in CallIds :
        (kind[i] = "sync" /\ returned[i] # "none")
        => \/ returned[i] = outcome[i]
           \/ returned[i] = "Idle" /\ outcome[i] = "none"

\* C5: an async getLocation call that returned Acquiring has its callback
\* invoked once: never twice, and, unless the request is still on the command
\* queue or with the worker, exactly once.
C5_CallbackOnce ==
    \A i \in CallIds :
        (kind[i] = "async" /\ returned[i] = "Acquiring")
        => /\ callbacks[i] <= 1
           /\ callbacks[i] = 1 \/ InProgress(i)

\* C6: a poll cycle whose position reply is well formed, with a fix count of
\* at least 2, the point's HDOP within the HDOP threshold and its horizontal
\* accuracy within the accuracy threshold, ends the attempt with Fixed: the
\* worker does not go on to the delay before the next poll.
C6_QualifiedCycleStops ==
    w.pc = "delay"
    => ~ /\ WellFormed(w.reply)
         /\ w.fixCount >= 2
         /\ point[w.event.point].horizontalDop <= conf.hdop
         /\ point[w.event.point].horizontalAccuracy <= conf.hacc

\* C7: an attempt whose outcome is Fixed had, in its final cycle, a well-formed
\* position reply, at least two well-formed position replies in all, and the
\* point's HDOP and horizontal accuracy within the stored thresholds.
C7_FixedOnlyIfQualified ==
    (w.pc = "deliver" /\ w.response = "Fixed")
    => /\ WellFormed(w.reply)
       /\ w.decoded >= 2
       /\ point[w.event.point].horizontalDop <= conf.hdop
       /\ point[w.event.point].horizontalAccuracy <= conf.hacc

\* C8: after begin(configuration) the stored configuration equals the
\* configuration passed, in all five options.
C8_ConfigurationStored == begun => conf = passed

\* C9: an attempt in which every position poll was answered +CME ERROR: 516
\* and the modem was seen powered to the end has the outcome TimedOut, and the
\* point's fix flag is 0 when the outcome is delivered.
C9_NoFixTimesOut ==
    (w.pc = "deliver" /\ w.power /\ w.seen = "nofix")
    => (w.response = "TimedOut" /\ point[w.event.point].fix = 0)

\* C9 witness: such an attempt is about to deliver TimedOut, the maximum fix
\* time elapsed, for a point that an earlier attempt had left with a fix.
C9_Witness ==
    /\ w.pc = "deliver" /\ w.power /\ w.seen = "nofix"
    /\ w.elapsed >= w.maxTime
    /\ w.response = "TimedOut"
    /\ point[w.event.point].systemTime # 0
    /\ point[w.event.point].fix = 0

\* C10: an attempt that left the polling loop because the modem was seen
\* powered off has the outcome Unavailable, also when the maximum fix time had
\* elapsed as well.
C10_PowerLossUnavailable ==
    (w.pc = "deliver" /\ ~w.power) => w.response = "Unavailable"

\* C10 witness: the modem was seen off at the head of a cycle at which the
\* maximum fix time had elapsed too, and the outcome is Unavailable.
C10_Witness ==
    /\ w.pc = "deliver" /\ ~w.power
    /\ w.elapsed >= w.maxTime
    /\ w.seen # "none"
    /\ w.response = "Unavailable"

\* C11: with an antenna-power pin configured, the pin is low whenever the worker
\* waits for a command, so every attempt, whatever its outcome, has driven it
\* low at its end; and the pin level changes only in a step of the worker
\* thread: its setAntennaPower or its scope guard.
C11_AntennaOffBetweenAttempts ==
    /\ [](w.pc = "wait" => antennaLevel = "LOW")
    /\ [][antennaLevel' # antennaLevel
            => (w.pc \in {"antenna", "guard"} /\ w'.pc # w.pc /\ c' = c)]_vars

\* C11 witness: a pin is configured, an attempt has ended because the modem was
\* seen powered off, another has ended Fixed, and the worker waits with the
\* pin low.
C11_Witness ==
    /\ PIN_INVALID # antennaPowerPin
    /\ w.pc = "wait" /\ antennaLevel = "LOW"
    /\ \E i, j \in CallIds : outcome[i] = "Unavailable" /\ outcome[j] = "Fixed"

\* a dispatched request whose outcome the worker has not delivered yet
InFlight ==
    \/ commandQueue # <<>>
    \/ w.pc \in {"store", "antenna", "start", "loop", "gloc", "epe", "delay", "end",
                 "deliver", "publish", "reqid", "callback"}

\* C12: getStatus returns Acquiring exactly when an attempt is in flight: in
\* every state with a dispatched request not yet delivered it returns
\* Acquiring, and in every other state Idle (the state in which the outcome is
\* delivered and the scope guard has not run yet is left open).
C12_StatusTracksAttempt ==
    /\ InFlight => getStatus = "Acquiring"
    /\ getStatus = "Acquiring" => (InFlight \/ w.pc = "guard")

\* everything but what the last getStatus call returned and when
StateBesideStatus ==
    <<modemOn, devId, connected, antennaLevel, point, pubLog, modemType, conf,
      antennaPowerPin, acquiring, commandQueue, responseQueue, reqid, publishBuffer,
      locBuffer, epeBuffer, qlocContext, c, w, begun, passed, calls, kind, returned,
      outcome, callbacks, publishes, config, hdopArg>>

\* C13 as stated: a getStatus call made with no getLocation call since the
\* previous getStatus call returns what that call returned.
C13_StatusStable ==
    [][(status # "none" /\ statusAt = calls) => status' = status]_vars

\* C13 amended: a getStatus call changes nothing but what the application has
\* seen, and returns Acquiring exactly when the in-flight flag is set; so two
\* calls return the same value unless the worker has set or cleared the flag
\* between them.
C13_StatusReadsFlag ==
    [][<<status, statusAt>>' # <<status, statusAt>>
          => /\ UNCHANGED StateBesideStatus
             /\ status' = IF acquiring THEN "Acquiring" ELSE "Idle"
             /\ statusAt' = calls]_vars

\* C13 witness: getStatus returned Acquiring, no getLocation call has been made
\* since, and the attempt has ended: the next getStatus call returns Idle.
C13_Witness ==
    /\ status = "Acquiring" /\ statusAt = calls
    /\ w.pc = "wait" /\ commandQueue = <<>> /\ ~acquiring

\* C14: when the callback of an async request is invoked and the request asked
\* for a publish, its attempt ended Fixed and isConnected() returned true to
\* the worker's publish condition, the worker has made the publish call for
\* that request, and finished the update of the request id, before: the
\* callback does not run before or without the publish.
C14_PublishBeforeCallback ==
    [][\A i \in CallIds :
          (callbacks'[i] # callbacks[i] /\ publishes[i].asked /\ outcome[i] = "Fixed"
           /\ publishes[i].online = "yes")
          => (publishes[i].calls = 1 /\ w.pc = "callback" /\ w.event.id = i)]_vars

\* C14 witness: the callback of an async request has been invoked after a
\* successful publish by the worker for that request.
C14_Witness ==
    \E i \in CallIds :
        /\ kind[i] = "async" /\ callbacks[i] = 1 /\ outcome[i] = "Fixed"
        /\ publishes[i].asked /\ publishes[i].online = "yes" /\ publishes[i].calls = 1
        /\ \E k \in 1..Len(pubLog) : pubLog[k].by = "worker"

\* C15: a blocking getLocation call that has returned made one publish call if
\* publish was true, the value it returns is Fixed and isConnected() returned
\* true to its publish condition, and none otherwise; the call is made before
\* the return, and none is made for that call after it.
C15_BlockingPublish ==
    \A i \in CallIds :
        (kind[i] = "sync" /\ returned[i] # "none")
        => /\ publishes[i].calls =
                 IF publishes[i].asked /\ returned[i] = "Fixed"
                    /\ publishes[i].online = "yes"
                 THEN 1 ELSE 0
           /\ publishes[i].calls = 1 => returned[i] = "Fixed"
           /\ publishes[i].online # "none" => (publishes[i].asked /\ returned[i] = "Fixed")

\* C15 witness: two blocking calls with publish true have returned, one that
\* got Fixed with the cloud connected and published, one that returned
\* another value and did not.
C15_Witness ==
    \E i, j \in CallIds :
        /\ kind[i] = "sync" /\ returned[i] = "Fixed" /\ publishes[i].asked
        /\ publishes[i].calls = 1
        /\ \E k \in 1..Len(pubLog) : pubLog[k].by # "worker"
        /\ kind[j] = "sync" /\ publishes[j].asked /\ publishes[j].calls = 0
        /\ returned[j] \in {"TimedOut", "Unavailable", "Idle"}

\* threads that have loaded _reqid for `_reqid++` and not stored it yet
Incrementing ==
    Cardinality({cl \in Callers : c[cl].pc = "reqid"}) + (IF w.pc = "reqid" THEN 1 ELSE 0)

\* C16: the request id starts at 1 and counts the successful publishes: it is
\* 1 plus the number of successful publishes whose increment is completed, it
\* never decreases, and only the increment after a successful publish
\* changes it.
C16_RequestIdCounts ==
    /\ [](reqid + Incrementing = 1 + Len(pubLog))
    /\ [][reqid' >= reqid]_vars
    /\ [][reqid' # reqid => Len(pubLog) >= 1]_vars

\* a +QGPSLOC reply of which sscanf converts only some of the fields
Malformed(line) == line.t = "qloc" /\ line.n < QLOC_FIELDS

\* C17: a poll cycle whose position reply is malformed leaves the fix count,
\* the first-fix timestamp and the point as they were, and the attempt does
\* not end Fixed in that cycle.
C17_MalformedIgnored ==
    /\ [][(w.pc = "gloc" /\ w'.pc = "epe" /\ Malformed(w'.reply))
            => (w'.fixCount = w.fixCount /\ w'.firstFix = w.firstFix
                /\ point' = point)]_vars
    /\ []((w.pc \in {"end", "deliver"} /\ w.response = "Fixed") => ~Malformed(w.reply))

\* the fault C18 assigns to a reply line
Fault(line) ==
    IF line.t # "cme" THEN CME_NONE
    ELSE IF line.n \in {CME_SESSION_IS_ONGOING, CME_SESSION_NOT_ACTIVE,
                         CME_OPERATION_TIMEOUT, CME_NO_FIX, CME_GNSS_IS_WORKING,
                         CME_UNKNOWN_ERROR}
    THEN line.n
    ELSE CME_UNDEFINED

\* C18: for the buffer of every position poll, parseCmeError returns NO_FIX
\* exactly for +CME ERROR: 516, NONE for a buffer without the +CME ERROR
\* pattern, the empty buffer included, the named fault for 504, 505, 506, 522
\* and 549, and UNDEFINED for every other code.
C18_FaultMapping ==
    w.pc = "epe" => w.cme = Fault(locBuffer)

\* h clamped to [0, 100]
Clamped(h) == IF h < 0 THEN 0 ELSE IF h > 100 THEN 100 ELSE h

\* C19: after hdopThreshold(h) the HDOP threshold of the configuration object
\* is h clamped to [0, 100]; a default-constructed configuration has the
\* threshold 100; the threshold of the object and the one begin stores are
\* always within [0, 100].
C19_HdopClamped ==
    /\ config.hdop = IF hdopArg = <<>> THEN 100 ELSE Clamped(hdopArg[1])
    /\ config.hdop \in 0..100
    /\ conf.hdop \in 0..100
    /\ LocationConfiguration.hdop = 100

\* C19 witness: hdopThreshold was last called with a negative argument, the
\* threshold is 0, and begin has stored it.
C19_Witness ==
    /\ hdopArg # <<>> /\ hdopArg[1] < 0
    /\ config.hdop = 0
    /\ begun /\ conf.hdop = 0

\* the terminal outcomes of an attempt
Terminal == {"Fixed", "TimedOut", "Unavailable"}

\* C20: with time advancing and the threads scheduled fairly, every attempt
\* the worker starts reaches the point where its outcome is one of Fixed,
\* TimedOut and Unavailable, the in-flight flag is cleared, getStatus returns
\* Idle and the worker waits for a command again; the outcome of an attempt
\* is one of the three and, once set, does not change.
C20_AttemptTerminates ==
    /\ \A i \in CallIds :
          (w.pc = "store" /\ w.event.id = i)
              ~> (/\ w.pc = "wait" /\ ~acquiring /\ getStatus = "Idle"
                  /\ outcome[i] \in Terminal)
    /\ [](\A i \in CallIds : outcome[i] \in Terminal \cup {"none"})
    /\ [][\A i \in CallIds : outcome[i] # "none" => outcome'[i] = outcome[i]]_vars
    /\ [][(w.pc = "wait" /\ w'.pc # "wait") => (~acquiring /\ w'.pc = "store")]_vars

\* C20 witness: the first attempt has ended with a terminal outcome and the
\* worker, back from waiting for a command, has started the second attempt.
C20_Witness ==
    /\ outcome[1] \in Terminal
    /\ w.pc = "antenna" /\ w.event.id = 2
    /\ acquiring /\ getStatus = "Acquiring"

\* the places of an action in the log of an attempt
Places(log, action) == {k \in 1..Len(log) : log[k] = action}

\* the worker is inside an attempt at or after its AT+QGPSEND
Stopped == w.pc \in {"deliver", "publish", "reqid", "callback", "guard"}

\* C21: the antenna and modem actions of an attempt are, in order: antenna
\* power on (exactly when a pin is configured), the start command, poll cycles
\* of a position query followed, on the BG95-M5, by an accuracy query, the stop
\* command, and, in the scope guard, antenna power off; no accuracy query comes
\* without the position query of its cycle before it; the stop command is
\* issued exactly once on every way out of the loop, and the antenna stays
\* powered until it has been issued.
C21_CommandOrder ==
    /\ [](LET log == w.log
              first == IF PIN_INVALID # antennaPowerPin THEN 2 ELSE 1
          IN  /\ Places(log, "antennaOn") =
                     IF PIN_INVALID # antennaPowerPin /\ log # <<>> THEN {1} ELSE {}
              /\ Places(log, "start") = IF Len(log) >= first THEN {first} ELSE {}
              /\ Places(log, "stop") = IF Stopped THEN {Len(log)} ELSE {}
              /\ \A k \in Places(log, "accuracy") : k > 1 /\ log[k - 1] = "position"
              /\ \A k \in Places(log, "position") :
                     /\ log[k - 1] \in {"start", "position", "accuracy"}
                     /\ ("BG95_M5" = modemType /\ k > first + 1)
                            => log[k - 1] = "accuracy"
                     /\ log[k - 1] = "position" => "BG95_M5" # modemType
              /\ Stopped => Len(log) > first
              /\ (w.pc \in {"loop", "gloc", "epe", "delay", "end"} \cup
                            {"deliver", "publish", "reqid", "callback", "guard"}
                  /\ PIN_INVALID # antennaPowerPin) => antennaLevel = "HIGH")
    /\ [][(w.pc = "guard" /\ w'.pc # "guard")
            => (/\ w.log[Len(w.log)] = "stop"
                /\ PIN_INVALID # antennaPowerPin => antennaLevel' = "LOW"
                /\ w'.pc = "wait" /\ w'.log = <<>>)]_vars
    /\ [][w'.log # w.log
            => (w'.log = <<>> \/ (Len(w'.log) = Len(w.log) + 1
                                   /\ SubSeq(w'.log, 1, Len(w.log)) = w.log))]_vars

\* C21 witness: an attempt with a pin configured on the BG95-M5 is in its
\* scope guard after two full poll cycles, the antenna still powered.
C21_Witness ==
    /\ w.pc = "guard" /\ antennaLevel = "HIGH"
    /\ w.log = <<"antennaOn", "start", "position", "accuracy", "position", "accuracy",
                 "stop">>

\* the worker takes the step of a poll cycle that receives and parses the
\* position reply
PositionPolled == w.pc = "gloc" /\ w'.pc = "epe"

C23_ConsecutiveFixes ==
    (w.pc = "deliver" /\ w.response = "Fixed")
    => (WellFormed(w.reply) /\ WellFormed(w.prev))

\* C24: a poll cycle whose position reply is a +CME ERROR line, whatever its
\* code, leaves the fix count and the first-fix timestamp as they were, and
\* the point too unless the code is 516, which clears the point's fix flag and
\* nothing else; the cycle does not end the attempt but goes on to the delay
\* before the next poll with the response still TimedOut; and the outcome of
\* an attempt is never anything but Fixed, TimedOut or Unavailable.
C24_FaultsAbsorbed ==
    /\ [][(PositionPolled /\ w'.reply.t = "cme")
            => /\ w'.fixCount = w.fixCount /\ w'.firstFix = w.firstFix
               /\ point' = IF w'.reply.n = CME_NO_FIX
                           THEN [point EXCEPT ![w.event.point].fix = 0]
                           ELSE point]_vars
    /\ [][(w.pc = "epe" /\ w.reply.t = "cme" /\ w'.pc # "epe")
            => (w'.pc = "delay" /\ w'.response = "TimedOut")]_vars
    /\ [](\A i \in CallIds :
             /\ outcome[i] \in {"none", "Fixed", "TimedOut", "Unavailable"}
             /\ returned[i] \in {"none", "Unavailable", "Unsupported", "Idle",
                                  "Acquiring", "Pending", "Fixed", "TimedOut"})

\* C24 witness: after a cycle with a well-formed reply, a cycle answered with
\* a +CME ERROR code the parser does not name has gone on to the delay, the
\* fix count still 1 and the point's fix flag still set.
C24_Witness ==
    /\ w.pc = "delay" /\ w.reply.t = "cme"
    /\ w.reply.n \notin {CME_SESSION_IS_ONGOING, CME_SESSION_NOT_ACTIVE,
                          CME_OPERATION_TIMEOUT, CME_NO_FIX, CME_GNSS_IS_WORKING,
                          CME_UNKNOWN_ERROR}
    /\ w.fixCount = 1 /\ w.decoded = 1
    /\ point[w.event.point].fix = 1

\* C25: the first-fix timestamp and the point's system time are set in the
\* cycle of the attempt's first well-formed position reply, to the time of
\* that cycle, and in no other cycle; when the attempt leaves the loop, the
\* point's time to first fix becomes the first-fix timestamp counted from the
\* attempt's start if a well-formed reply was received, and is left as it was
\* if none was.
C25_FirstFixOnce ==
    /\ [][PositionPolled
            => IF WellFormed(w'.reply) /\ w.decoded = 0
               THEN /\ w'.firstFix = w.elapsed
                    /\ point'[w.event.point].systemTime = w.elapsed + 1
               ELSE /\ w'.firstFix = w.firstFix
                    /\ point'[w.event.point].systemTime =
                           point[w.event.point].systemTime]_vars
    /\ [][(w.pc = "end" /\ w'.pc = "deliver")
            => point'[w.event.point].timeToFirstFix =
                  IF w.decoded > 0 THEN w.firstFix
                  ELSE point[w.event.point].timeToFirstFix]_vars
    /\ [][(~PositionPolled /\ w.pc # "start" /\ w'.pc # "wait")
            => w'.firstFix = w.firstFix]_vars
    /\ [][(~PositionPolled) => \A cl \in Callers :
                                  point'[cl].systemTime = point[cl].systemTime]_vars

\* the worker issues the position query: the loop head passes its two tests
PositionIssued == w.pc = "loop" /\ w'.pc = "gloc"

\* the worker issues the accuracy query: on the BG95-M5, right after the
\* position reply is parsed
AccuracyIssued == PositionPolled /\ "BG95_M5" = modemType

\* an attempt ends TimedOut only with the modem seen powered and the maximum
\* fix time elapsed at the head of the loop
TimedOutOnlyOnTime ==
    (w.pc = "deliver" /\ w.response = "TimedOut")
    => (w.power /\ w.elapsed >= w.maxTime /\ w.maxTime = conf.maxFixSeconds)

\* no query is issued once the maximum fix time has elapsed
NoQueryPastTime ==
    [][(PositionIssued \/ AccuracyIssued) => w.elapsed < w.maxTime]_vars

\* a response of Fixed stays Fixed to the end of the attempt, and is the outcome
FixedKept ==
    /\ [][w.response = "Fixed" => (w'.response = "Fixed" \/ w'.pc = "wait")]_vars
    /\ []((w.pc = "deliver" /\ w.response = "Fixed") => outcome[w.event.id] = "Fixed")

\* C26: an attempt ends TimedOut only if, at the head of a poll cycle with the
\* modem powered, the time since the attempt's start was at least the maximum
\* fix time; no position or accuracy query is issued once that time has
\* elapsed; and a cycle that produced Fixed is not turned into TimedOut.
C26_TimedOutOnlyOnTime ==
    /\ []TimedOutOnlyOnTime
    /\ NoQueryPastTime
    /\ FixedKept

\* caller cl takes a response from the response queue
Takes(cl) == c[cl].pc = "wait" /\ c'[cl].pc # "wait" /\ responseQueue' # responseQueue

\* C27: the response a blocking getLocation call takes from the response
\* queue and returns is the one the worker produced for the request this call
\* dispatched.
C27_OwnResponse ==
    [][\A cl \in Callers : Takes(cl) => Head(responseQueue).id = c[cl].id]_vars

\* C28: once a blocking getLocation call has returned, the worker's attempt
\* for that call changes nothing in the LocationPoint passed to it.
C28_NoWriteAfterReturn ==
    [][\A i \in CallIds :
          (kind[i] = "sync" /\ returned[i] # "none" /\ w.pc # "wait"
           /\ w.event.id = i)
          => point'[w.event.point] = point[w.event.point]]_vars

\* C29: a poll cycle whose position query gets no reply line leaves the fix
\* count, the first-fix timestamp and the point as they were: the text an
\* earlier reply left in the buffer is not parsed again.
C29_SilentCycleIgnored ==
    [][(PositionPolled /\ w'.reply = NoReply)
          => (w'.fixCount = w.fixCount /\ w'.firstFix = w.firstFix
              /\ point' = point)]_vars

\* the point's fix flag is set when the worker delivers Fixed
FixedHasFix ==
    (w.pc = "deliver" /\ w.response = "Fixed") => point[w.event.point].fix # 0

\* every payload Particle.publish accepted carries lck = 1
PublishedLocked == \A k \in 1..Len(pubLog) : pubLog[k].lck = 1

\* C30: when the worker delivers the outcome Fixed the point's fix flag is not
\* 0, and every payload published, which is published for a Fixed outcome
\* only, carries lck = 1.
C30_FixedCarriesFix == FixedHasFix /\ PublishedLocked

\* the payloads Particle.publish accepted carry pairwise different req_id
DistinctRequestIds ==
    \A j, k \in 1..Len(pubLog) : j # k => pubLog[j].req_id # pubLog[k].req_id

\* a thread that has built its payload and not yet made its publish call
\* finds in the publish buffer the payload it built
BufferKept ==
    /\ \A cl \in Callers : c[cl].pc = "publish" => publishBuffer.by = cl
    /\ w.pc = "publish" => publishBuffer.by = "worker"

\* C31: no two successful publishes carry the same req_id, and between a
\* thread's building of the payload in the publish buffer and its publish
\* call no other thread rewrites the buffer.
C31_PublishIsolated == DistinctRequestIds /\ BufferKept

====
